---- MODULE Spec2Model ----
(***************************************************************************)
(* PyFlash (src/Lab6.py): the card catalog, its persisted file and the     *)
(* practice-session record kept in st.session_state, with one action per   *)
(* button / form handler of the three pages.                               *)
(*                                                                         *)
(* Python dicts are objects: st.session_state.cards and                    *)
(* session["cards_in_session"] are lists of references to the same card    *)
(* dicts.  heap maps a reference to the dict's current contents; the two   *)
(* lists hold references.  Texts are sequences of one-character strings.   *)
(***************************************************************************)
EXTENDS Integers, Sequences, FiniteSets, TLC

\* ---- bounds of the model ------------------------------------------------
MaxCards == 2          \* card dicts ever created in one run
MaxAdvances == 3       \* "Next Card" clicks in one run
MaxStatCards == 6      \* cards of a catalog shown on the statistics page
MaxRenders == 2        \* renderings of the practice page that show a summary
MaxOtherCards == 2     \* card objects the second process ever holds
MaxTextLen == 4        \* characters of a text in the grading specification

\* ---- program constants --------------------------------------------------
TOPICS == <<"General", "Data Structures", "Functions", "OOP", "Algorithms", "Libraries">>

\* ---- inputs the user can type or pick -----------------------------------
\* filled-in "Add a New Flashcard" forms: two valid ones, one without question, one without answer
AddForms == {
    [question |-> <<"q">>, answer |-> <<"A", " ">>, answer_type |-> "Text", topic |-> "General"],
    [question |-> <<"q">>, answer |-> <<"A", " ">>, answer_type |-> "Code", topic |-> "OOP"],
    [question |-> <<>>, answer |-> <<"A", " ">>, answer_type |-> "Text", topic |-> "General"],
    [question |-> <<"q">>, answer |-> <<>>, answer_type |-> "Code", topic |-> "OOP"] }
\* filled-in edit forms
EditForms == {
    [question |-> <<>>, answer |-> <<>>, topic |-> "OOP"] }
\* answers typed into the practice form
UTexts == {<<>>, <<"a">>}
StartTopics == {"All"} \cup {TOPICS[i] : i \in 1..Len(TOPICS)}

NoEditing == 0         \* st.session_state.get('editing_card_id') is None

VARIABLES
    keys,             \* the keys present in st.session_state
    heap,             \* card dict objects: reference -> contents
    cards,            \* st.session_state.cards, a list of references
    file,             \* contents of flashcards.json
    session,          \* st.session_state.practice_session
    editing_card_id,  \* st.session_state.editing_card_id
    lastOp,           \* history: the handler that ran last and its outcome
    advances,         \* history: "Next Card" clicks so far
    hSubmitted,       \* history: an answer was submitted for the current card in this session
    hClean,           \* history: every advance of this session tallied such an answer
    other,            \* the cards of a second process (user session) sharing the file
    stats,            \* what the statistics page displayed last
    summaryRenders,   \* history: renderings that showed the summary since the session ended
    graded,           \* history: the order entries advanced past in the current session
    listed            \* the card list the manage page displayed last, and for which inputs

vars == <<keys, heap, cards, file, session, editing_card_id,
          lastOp, advances, hSubmitted, hClean,
          other, stats, summaryRenders, graded, listed>>

hist == <<advances, hSubmitted, hClean>>

\* the state only the two-process, statistics, rendering and listing specifications use
aux == <<other, stats, summaryRenders, graded, listed>>

\* ---- helpers ------------------------------------------------------------
Range(s) == {s[i] : i \in 1..Len(s)}

\* str.lower() on the model's alphabet
Lower(c) == IF c = "A" THEN "a" ELSE IF c = "B" THEN "b" ELSE IF c = "Q" THEN "q" ELSE c

LowerText(s) == [i \in 1..Len(s) |-> Lower(s[i])]

IsSpace(c) == c \in {" ", "\t", "\n"}

RECURSIVE LStrip(_)
LStrip(s) == IF s # <<>> /\ IsSpace(Head(s)) THEN LStrip(Tail(s)) ELSE s

RECURSIVE RStrip(_)
RStrip(s) == IF s # <<>> /\ IsSpace(s[Len(s)]) THEN RStrip(SubSeq(s, 1, Len(s) - 1)) ELSE s

Strip(s) == RStrip(LStrip(s))

\* str.split(): the maximal runs of non-whitespace characters
RECURSIVE SplitFrom(_, _, _)
SplitFrom(s, cur, acc) ==
    IF s = <<>> THEN (IF cur = <<>> THEN acc ELSE Append(acc, cur))
    ELSE IF IsSpace(Head(s))
         THEN SplitFrom(Tail(s), <<>>, IF cur = <<>> THEN acc ELSE Append(acc, cur))
         ELSE SplitFrom(Tail(s), Append(cur, Head(s)), acc)

Split(s) == SplitFrom(s, <<>>, <<>>)

\* " ".join(words)
RECURSIVE Join(_)
Join(words) ==
    IF words = <<>> THEN <<>>
    ELSE IF Len(words) = 1 THEN words[1]
    ELSE words[1] \o <<" ">> \o Join(Tail(words))

\* mutant of Normalize: the text is not lower-cased
NormalizeNoLower(s) == Join(Split(Strip(s)))

\* " ".join(text.lower().strip().split())
Normalize(s) == Join(Split(Strip(LowerText(s))))

\* json.dump(cards): the file holds the contents of the listed dicts, in order
Dump(h, cs) == [i \in 1..Len(cs) |-> h[cs[i]]]

\* [c for c in cs if keep(c)] on a list of references
RECURSIVE SelectRefs(_, _, _)
SelectRefs(h, cs, topic) ==
    IF cs = <<>> THEN <<>>
    ELSE IF topic = "All" \/ h[Head(cs)].topic = topic
         THEN <<Head(cs)>> \o SelectRefs(h, Tail(cs), topic)
         ELSE SelectRefs(h, Tail(cs), topic)

RECURSIVE RemoveId(_, _, _)
RemoveId(h, cs, id) ==
    IF cs = <<>> THEN <<>>
    ELSE IF h[Head(cs)].id # id
         THEN <<Head(cs)>> \o RemoveId(h, Tail(cs), id)
         ELSE RemoveId(h, Tail(cs), id)

\* index (1-based) of the first card of cs whose id is id, 0 when the loop finds none
RECURSIVE FirstWithId(_, _, _, _)
FirstWithId(h, cs, id, i) ==
    IF i > Len(cs) THEN 0
    ELSE IF h[cs[i]].id = id THEN i ELSE FirstWithId(h, cs, id, i + 1)

\* the orders random.shuffle can leave list(range(n)) in
Shuffles(n) == {p \in [1..n -> 0..(n - 1)] : \A i, j \in 1..n : i # j => p[i] # p[j]}

\* ---- initial state ------------------------------------------------------
NewSession == [active |-> FALSE, shuffled_indices |-> <<>>, current_index |-> 0,
               correct_answers |-> 0, incorrect_answers |-> 0,
               answer_submitted |-> FALSE, user_answer |-> <<>>,
               last_answer_correct |-> "None", cards_in_session |-> <<>>]

\* no second process has loaded the file
NoOther == [heap |-> <<>>, cards |-> <<>>]

\* the statistics page has not been opened
NoStats == [outcome |-> "not_viewed", total_correct |-> 0, total_attempts |-> 0,
            hardest |-> <<>>]

\* the manage page has not been rendered
NoListed == [search_query |-> <<>>, filter_topic |-> "All", cards |-> <<>>, after |-> "init"]

\* initialize_session_state(): each key is set only when it is absent
InitializeSessionState(ks, sess) ==
    IF "practice_session" \notin ks THEN NewSession ELSE sess

Init ==
    /\ keys = {"cards", "practice_session"}
    /\ heap = <<>>
    /\ cards = <<>>
    /\ file = <<>>
    /\ session = NewSession
    /\ editing_card_id = NoEditing
    /\ lastOp = "init"
    /\ advances = 0
    /\ hSubmitted = FALSE
    /\ hClean = TRUE
    /\ other = NoOther
    /\ stats = NoStats
    /\ summaryRenders = 0
    /\ graded = <<>>
    /\ listed = NoListed

\* ---- Manage page -------------------------------------------------------
\* mutant of AddCard: only the question is checked before the card is created
AddCardNoAnswerCheck(question, answer, answer_type, topic) ==
    IF question # <<>>
    THEN /\ Len(heap) < MaxCards
         /\ LET ref == Len(heap) + 1
                new_card == [id |-> ref, question |-> question, answer |-> answer,
                             is_code |-> (answer_type = "Code"), topic |-> topic,
                             correct_count |-> 0, incorrect_count |-> 0]
            IN /\ heap' = Append(heap, new_card)
               /\ cards' = Append(cards, ref)
               /\ file' = Dump(heap', cards')
         /\ lastOp' = "add"
         /\ UNCHANGED <<keys, session, editing_card_id, hist, aux>>
    ELSE /\ lastOp' = "add_rejected"
         /\ UNCHANGED <<keys, heap, cards, file, session, editing_card_id, hist, aux>>

\* "Add Card" form submit
AddCard(question, answer, answer_type, topic) ==
    IF question # <<>> /\ answer # <<>>
    THEN /\ Len(heap) < MaxCards
         /\ LET ref == Len(heap) + 1
                new_card == [id |-> ref, question |-> question, answer |-> answer,
                             is_code |-> (answer_type = "Code"), topic |-> topic,
                             correct_count |-> 0, incorrect_count |-> 0]
            IN /\ heap' = Append(heap, new_card)
               /\ cards' = Append(cards, ref)
               /\ file' = Dump(heap', cards')
         /\ lastOp' = "add"
         /\ UNCHANGED <<keys, session, editing_card_id, hist, aux>>
    ELSE /\ lastOp' = "add_rejected"
         /\ UNCHANGED <<keys, heap, cards, file, session, editing_card_id, hist, aux>>

\* "Edit" button of a listed card
ClickEdit(ref) ==
    /\ ref \in Range(cards)
    /\ editing_card_id' = heap[ref].id
    /\ lastOp' = "click_edit"
    /\ UNCHANGED <<keys, heap, cards, file, session, hist, aux>>

\* mutant of SaveEdit: the loop does not compare ids and edits the first card of the catalog
SaveEditFirst(ref, edited_question, edited_answer, edited_topic) ==
    /\ ref \in Range(cards)
    /\ editing_card_id = heap[ref].id
    /\ heap' = [heap EXCEPT ![cards[1]].question = edited_question,
                            ![cards[1]].answer = edited_answer,
                            ![cards[1]].topic = edited_topic]
    /\ file' = Dump(heap', cards)
    /\ editing_card_id' = NoEditing
    /\ lastOp' = "edit"
    /\ UNCHANGED <<keys, cards, session, hist, aux>>

\* mutant of SaveEdit: the card is rebuilt from the form, which zeroes its counters
SaveEditResetCounts(ref, edited_question, edited_answer, edited_topic) ==
    /\ ref \in Range(cards)
    /\ editing_card_id = heap[ref].id
    /\ heap' = [heap EXCEPT ![ref] = [id |-> heap[ref].id, question |-> edited_question,
                                      answer |-> edited_answer, is_code |-> heap[ref].is_code,
                                      topic |-> edited_topic,
                                      correct_count |-> 0, incorrect_count |-> 0]]
    /\ file' = Dump(heap', cards)
    /\ editing_card_id' = NoEditing
    /\ lastOp' = "edit"
    /\ UNCHANGED <<keys, cards, session, hist, aux>>

\* "Save" of the edit form of a listed card
SaveEdit(ref, edited_question, edited_answer, edited_topic) ==
    /\ ref \in Range(cards)
    /\ editing_card_id = heap[ref].id
    /\ LET idx == FirstWithId(heap, cards, heap[ref].id, 1)
       IN heap' = IF idx = 0 THEN heap
                  ELSE [heap EXCEPT ![cards[idx]].question = edited_question,
                                    ![cards[idx]].answer = edited_answer,
                                    ![cards[idx]].topic = edited_topic]
    /\ file' = Dump(heap', cards)
    /\ editing_card_id' = NoEditing
    /\ lastOp' = "edit"
    /\ UNCHANGED <<keys, cards, session, hist, aux>>

\* "Cancel" of the edit form
CancelEdit(ref) ==
    /\ ref \in Range(cards)
    /\ editing_card_id = heap[ref].id
    /\ editing_card_id' = NoEditing
    /\ lastOp' = "cancel_edit"
    /\ UNCHANGED <<keys, heap, cards, file, session, hist, aux>>

\* mutant of DeleteCard: the catalog is not saved after the card is removed
DeleteCardNoSave(ref) ==
    /\ ref \in Range(cards)
    /\ cards' = RemoveId(heap, cards, heap[ref].id)
    /\ lastOp' = "delete"
    /\ UNCHANGED <<keys, heap, file, session, editing_card_id, hist, aux>>

\* "Delete" button of a listed card
DeleteCard(ref) ==
    /\ ref \in Range(cards)
    /\ cards' = RemoveId(heap, cards, heap[ref].id)
    /\ file' = Dump(heap, cards')
    /\ lastOp' = "delete"
    /\ UNCHANGED <<keys, heap, session, editing_card_id, hist, aux>>

\* ---- Practice page -----------------------------------------------------
\* the page renders past the "no cards" warning
PracticePageShown == cards # <<>>

\* session["shuffled_indices"][session["current_index"]] does not raise IndexError
CurrentCardDefined ==
    /\ session.current_index < Len(session.shuffled_indices)
    /\ session.shuffled_indices[session.current_index + 1] < Len(session.cards_in_session)

\* the card dict the page shows
CurrentCard == session.cards_in_session[session.shuffled_indices[session.current_index + 1] + 1]

\* mutant of StartSession: the session record is set up before the empty-selection check
StartSessionNoCheck(topic_to_practice, indices) ==
    /\ PracticePageShown
    /\ ~session.active
    /\ LET cards_to_practice == SelectRefs(heap, cards, topic_to_practice)
       IN /\ indices \in Shuffles(Len(cards_to_practice))
          /\ session' = [InitializeSessionState(keys, session) EXCEPT
                             !.active = TRUE,
                             !.cards_in_session = cards_to_practice,
                             !.shuffled_indices = indices]
          /\ lastOp' = IF cards_to_practice = <<>> THEN "start_error" ELSE "start"
    /\ hSubmitted' = FALSE
    /\ hClean' = TRUE
    /\ graded' = <<>>
    /\ summaryRenders' = 0
    /\ UNCHANGED <<keys, heap, cards, file, editing_card_id, advances, other, stats, listed>>

\* "Start New Session!" button
StartSession(topic_to_practice, indices) ==
    /\ PracticePageShown
    /\ ~session.active
    /\ LET cards_to_practice == SelectRefs(heap, cards, topic_to_practice)
       IN IF cards_to_practice = <<>>
          THEN /\ indices = <<>>
               /\ lastOp' = "start_error"
               /\ UNCHANGED <<keys, heap, cards, file, session, editing_card_id, hist, aux>>
          ELSE /\ indices \in Shuffles(Len(cards_to_practice))
               /\ session' = [InitializeSessionState(keys, session) EXCEPT
                                  !.active = TRUE,
                                  !.cards_in_session = cards_to_practice,
                                  !.shuffled_indices = indices]
               /\ lastOp' = "start"
               /\ hSubmitted' = FALSE
               /\ hClean' = TRUE
               /\ graded' = <<>>
               /\ summaryRenders' = 0
               /\ UNCHANGED <<keys, heap, cards, file, editing_card_id, advances, other, stats, listed>>

\* "End Session" button
EndSession ==
    /\ PracticePageShown
    /\ session.active
    /\ session' = [session EXCEPT !.active = FALSE]
    /\ lastOp' = "end"
    /\ summaryRenders' = 0
    /\ UNCHANGED <<keys, heap, cards, file, editing_card_id, hist, other, stats, listed, graded>>

\* "Submit Answer" of the answer form
SubmitAnswer(user_answer) ==
    /\ PracticePageShown
    /\ session.active
    /\ CurrentCardDefined
    /\ ~session.answer_submitted
    /\ LET user_ans_norm == Normalize(user_answer)
           correct_ans_norm == Normalize(heap[CurrentCard].answer)
       IN session' = [session EXCEPT
                         !.user_answer = user_answer,
                         !.answer_submitted = TRUE,
                         !.last_answer_correct =
                             IF user_ans_norm = correct_ans_norm THEN "True" ELSE "False"]
    /\ lastOp' = "submit"
    /\ hSubmitted' = TRUE
    /\ UNCHANGED <<keys, heap, cards, file, editing_card_id, advances, hClean, aux>>

\* handle_next_card(was_correct): the new card objects, catalog file and session record
HandleNextCard(h, cs, sess, was_correct) ==
    LET card_idx == sess.shuffled_indices[sess.current_index + 1]
        card_id_to_update == h[sess.cards_in_session[card_idx + 1]].id
        i == FirstWithId(h, cs, card_id_to_update, 1)
        h2 == IF i = 0 THEN h
              ELSE IF was_correct
                   THEN [h EXCEPT ![cs[i]].correct_count = @ + 1]
                   ELSE [h EXCEPT ![cs[i]].incorrect_count = @ + 1]
        s2 == IF was_correct
              THEN [sess EXCEPT !.correct_answers = @ + 1]
              ELSE [sess EXCEPT !.incorrect_answers = @ + 1]
        s3 == IF s2.current_index + 1 < Len(s2.shuffled_indices)
              THEN [s2 EXCEPT !.current_index = @ + 1,
                              !.answer_submitted = FALSE,
                              !.user_answer = <<>>,
                              !.last_answer_correct = "None"]
              ELSE [s2 EXCEPT !.active = FALSE]
    IN [heap |-> h2, file |-> Dump(h2, cs), session |-> s3]

\* "Next Card" button
NextCard ==
    /\ PracticePageShown
    /\ session.active
    /\ CurrentCardDefined
    /\ session.answer_submitted
    /\ advances < MaxAdvances
    /\ LET is_correct == session.last_answer_correct
           r == HandleNextCard(heap, cards, session, is_correct = "True")
       IN /\ heap' = r.heap
          /\ file' = r.file
          /\ session' = r.session
    /\ lastOp' = "advance"
    /\ hClean' = (hClean /\ hSubmitted)
    /\ hSubmitted' = FALSE
    /\ advances' = advances + 1
    /\ graded' = Append(graded, session.shuffled_indices[session.current_index + 1])
    /\ summaryRenders' = 0
    /\ UNCHANGED <<keys, cards, editing_card_id, other, stats, listed>>

\* ---- specification -----------------------------------------------------
Next ==
    \/ \E f \in AddForms : AddCard(f.question, f.answer, f.answer_type, f.topic)
    \/ \E ref \in Range(cards) : ClickEdit(ref)
    \/ \E ref \in Range(cards), f \in EditForms :
          SaveEdit(ref, f.question, f.answer, f.topic)
    \/ \E ref \in Range(cards) : CancelEdit(ref)
    \/ \E ref \in Range(cards) : DeleteCard(ref)
    \/ \E topic \in StartTopics, indices \in UNION {Shuffles(n) : n \in 0..MaxCards} :
          StartSession(topic, indices)
    \/ EndSession
    \/ \E u \in UTexts : SubmitAnswer(u)
    \/ NextCard

\* ---- grading specification: one card, one submitted answer ---------------
\* characters of stored answers and of typed answers
AnswerChars == {"a", "A", " "}
InputChars == {"a", "A", " ", "\n"}
Texts(chars, n) == UNION {[1..k -> chars] : k \in 0..n}

\* a session has just been started over a one-card catalog whose card has any stored answer
InitGrade ==
    /\ keys = {"cards", "practice_session"}
    /\ \E a \in Texts(AnswerChars, MaxTextLen) :
          heap = <<[id |-> 1, question |-> <<"q">>, answer |-> a, is_code |-> FALSE,
                    topic |-> "General", correct_count |-> 0, incorrect_count |-> 0]>>
    /\ cards = <<1>>
    /\ file = Dump(heap, cards)
    /\ session = [NewSession EXCEPT !.active = TRUE, !.cards_in_session = <<1>>,
                                     !.shuffled_indices = <<0>>]
    /\ editing_card_id = NoEditing
    /\ lastOp = "start"
    /\ advances = 0
    /\ hSubmitted = FALSE
    /\ hClean = TRUE
    /\ other = NoOther
    /\ stats = NoStats
    /\ summaryRenders = 0
    /\ graded = <<>>
    /\ listed = NoListed

NextGrade == \E u \in Texts(InputChars, MaxTextLen) : SubmitAnswer(u)

SpecGrade == InitGrade /\ [][NextGrade]_vars

\* ---- card list of the manage page ----------------------------------------
\* texts typed into "Search Cards" and topics picked in "Filter by Topic"
SearchQueries == {<<>>, <<"a">>, <<"Q">>, <<"a", " ">>, <<"x">>}
FilterTopics == {"All"} \cup {TOPICS[i] : i \in 1..Len(TOPICS)}

\* Python's "sub in text" on strings
Contains(text, sub) ==
    \E i \in 0..(Len(text) - Len(sub)) : SubSeq(text, i + 1, i + Len(sub)) = sub

\* mutant of FilteredCards: the search and the topic conditions are joined by "or"
FilteredCardsOr(h, cs, search_query, filter_topic) ==
    SelectSeq(cs, LAMBDA r :
        \/ Contains(LowerText(h[r].question), LowerText(search_query))
        \/ Contains(LowerText(h[r].answer), LowerText(search_query))
        \/ (filter_topic = "All" \/ h[r].topic = filter_topic))

\* the list comprehension building filtered_cards
FilteredCards(h, cs, search_query, filter_topic) ==
    SelectSeq(cs, LAMBDA r :
        /\ \/ Contains(LowerText(h[r].question), LowerText(search_query))
           \/ Contains(LowerText(h[r].answer), LowerText(search_query))
        /\ (filter_topic = "All" \/ h[r].topic = filter_topic))

\* the manage page is rendered with a search text and a topic; "after" remembers the
\* handler that ran before this rendering
ShowCards(search_query, filter_topic) ==
    /\ listed' = [search_query |-> search_query, filter_topic |-> filter_topic,
                  cards |-> FilteredCards(heap, cards, search_query, filter_topic),
                  after |-> IF lastOp = "list" THEN listed.after ELSE lastOp]
    /\ lastOp' = "list"
    /\ UNCHANGED <<keys, heap, cards, file, session, editing_card_id, hist,
                   other, stats, summaryRenders, graded>>

NextManage ==
    \/ \E f \in AddForms : AddCard(f.question, f.answer, f.answer_type, f.topic)
    \/ \E ref \in Range(cards) : ClickEdit(ref)
    \/ \E ref \in Range(cards), f \in EditForms :
          SaveEdit(ref, f.question, f.answer, f.topic)
    \/ \E ref \in Range(cards) : CancelEdit(ref)
    \/ \E ref \in Range(cards) : DeleteCard(ref)
    \/ \E q \in SearchQueries, t \in FilterTopics : ShowCards(q, t)

SpecManage == Init /\ [][NextManage]_vars

\* ---- renderings of the practice page ------------------------------------
\* a script run of the practice page without a button click (the run queued by st.rerun(),
\* a changed topic selection, coming back from another page)
RenderPracticePage ==
    /\ summaryRenders < MaxRenders
    /\ summaryRenders' =
          IF /\ PracticePageShown
             /\ ~session.active
             /\ (session.correct_answers > 0 \/ session.incorrect_answers > 0)
          THEN summaryRenders + 1
          ELSE summaryRenders
    /\ lastOp' = "render"
    /\ UNCHANGED <<keys, heap, cards, file, session, editing_card_id, hist, other, stats, listed, graded>>

NextRender ==
    \/ \E f \in AddForms : AddCard(f.question, f.answer, f.answer_type, f.topic)
    \/ \E topic \in StartTopics, indices \in UNION {Shuffles(n) : n \in 0..MaxCards} :
          StartSession(topic, indices)
    \/ EndSession
    \/ \E u \in UTexts : SubmitAnswer(u)
    \/ NextCard
    \/ RenderPracticePage

SpecRender == Init /\ [][NextRender]_vars

\* ---- statistics page ----------------------------------------------------
\* cards_df['correct_count'].sum() and cards_df['incorrect_count'].sum()
RECURSIVE TotalCorrect(_, _)
TotalCorrect(h, cs) ==
    IF cs = <<>> THEN 0 ELSE h[Head(cs)].correct_count + TotalCorrect(h, Tail(cs))

RECURSIVE TotalIncorrect(_, _)
TotalIncorrect(h, cs) ==
    IF cs = <<>> THEN 0 ELSE h[Head(cs)].incorrect_count + TotalIncorrect(h, Tail(cs))

\* mutant of OverallAccuracy: the quotient is computed without looking at the attempts
OverallAccuracyNoZeroCheck(h, cs) ==
    [outcome |-> "accuracy", total_correct |-> TotalCorrect(h, cs),
     total_attempts |-> TotalCorrect(h, cs) + TotalIncorrect(h, cs)]

\* "Overall Performance": a message when nothing was attempted, else the quotient
\* total_correct / total_attempts (shown as a percentage)
OverallAccuracy(h, cs) ==
    LET total_correct == TotalCorrect(h, cs)
        total_incorrect == TotalIncorrect(h, cs)
        total_attempts == total_correct + total_incorrect
    IN IF total_attempts = 0
       THEN [outcome |-> "no_attempts", total_correct |-> 0, total_attempts |-> 0]
       ELSE [outcome |-> "accuracy", total_correct |-> total_correct,
             total_attempts |-> total_attempts]

\* rows kept by head(5)
HardestK == 5

\* the row orders sort_values(by='incorrect_count', ascending=False) can produce: the default
\* kind 'quicksort' is not a stable sort, so rows of equal incorrect_count come in any order
RECURSIVE SortOutcomes(_, _)
SortOutcomes(h, rows) ==
    IF rows = {} THEN {<<>>}
    ELSE UNION {{<<r>> \o rest : rest \in SortOutcomes(h, rows \ {r})} :
                 r \in {x \in rows :
                          \A y \in rows : h[y].incorrect_count <= h[x].incorrect_count}}

\* .head(5), then the rows with incorrect_count > 0
DifficultCards(h, sorted) ==
    LET head == SubSeq(sorted, 1, IF Len(sorted) < HardestK THEN Len(sorted) ELSE HardestK)
    IN SelectSeq(head, LAMBDA r : h[r].incorrect_count > 0)

\* the statistics page is opened
ViewStats ==
    /\ IF cards = <<>>
       THEN stats' = [outcome |-> "no_cards", total_correct |-> 0, total_attempts |-> 0,
                      hardest |-> <<>>]
       ELSE \E sorted \in SortOutcomes(heap, Range(cards)) :
               LET a == OverallAccuracy(heap, cards)
               IN stats' = [outcome |-> a.outcome, total_correct |-> a.total_correct,
                            total_attempts |-> a.total_attempts,
                            hardest |-> DifficultCards(heap, sorted)]
    /\ lastOp' = "view_stats"
    /\ UNCHANGED <<keys, heap, cards, file, session, editing_card_id, hist,
                   other, summaryRenders, graded, listed>>

\* (correct_count, incorrect_count) of the cards of a catalog
StatCounts == {<<0, 0>>, <<1, 0>>, <<0, 1>>, <<1, 2>>}

\* the program has a catalog of practised cards and no session
InitStats ==
    /\ keys = {"cards", "practice_session"}
    /\ \E n \in 0..MaxStatCards : \E counts \in [1..n -> StatCounts] :
          /\ heap = [i \in 1..n |->
                       [id |-> i, question |-> <<"q">>, answer |-> <<"A", " ">>,
                        is_code |-> FALSE, topic |-> "General",
                        correct_count |-> counts[i][1], incorrect_count |-> counts[i][2]]]
          /\ cards = [i \in 1..n |-> i]
    /\ file = Dump(heap, cards)
    /\ session = NewSession
    /\ editing_card_id = NoEditing
    /\ lastOp = "init"
    /\ advances = 0
    /\ hSubmitted = FALSE
    /\ hClean = TRUE
    /\ other = NoOther
    /\ stats = NoStats
    /\ summaryRenders = 0
    /\ graded = <<>>
    /\ listed = NoListed

NextStats == ViewStats

SpecStats == InitStats /\ [][NextStats]_vars

\* ---- two processes over one file ----------------------------------------
\* contents of flashcards.json when the two processes start
SharedFiles == {
    <<>>,
    <<[id |-> 1, question |-> <<"q">>, answer |-> <<"A", " ">>, is_code |-> FALSE,
       topic |-> "General", correct_count |-> 0, incorrect_count |-> 0]>> }

\* json.load: one new object per record of the file
LoadCards(f) == [heap |-> f, cards |-> [i \in 1..Len(f) |-> i]]

\* ids made by uuid4 in the second process differ from all ids of the first
OtherIdBase == 100

\* filled-in "Add a New Flashcard" forms of the second process
OtherAddForms == {
    [question |-> <<"q">>, answer |-> <<"A", " ">>, answer_type |-> "Text", topic |-> "General"],
    [question |-> <<>>, answer |-> <<"A", " ">>, answer_type |-> "Text", topic |-> "General"] }

\* both processes have loaded the same file
InitTwo ==
    /\ keys = {"cards", "practice_session"}
    /\ file \in SharedFiles
    /\ heap = LoadCards(file).heap
    /\ cards = LoadCards(file).cards
    /\ other = LoadCards(file)
    /\ session = NewSession
    /\ editing_card_id = NoEditing
    /\ lastOp = "init"
    /\ advances = 0
    /\ hSubmitted = FALSE
    /\ hClean = TRUE
    /\ stats = NoStats
    /\ summaryRenders = 0
    /\ graded = <<>>
    /\ listed = NoListed

\* mutant of OtherAddCard: the file is loaded again before the card is appended
OtherAddCardReload(question, answer, answer_type, topic) ==
    IF question # <<>> /\ answer # <<>>
    THEN /\ Len(other.heap) < MaxOtherCards
         /\ LET ref == Len(file) + 1
                new_card == [id |-> OtherIdBase + Len(other.heap) + 1, question |-> question,
                             answer |-> answer,
                             is_code |-> (answer_type = "Code"), topic |-> topic,
                             correct_count |-> 0, incorrect_count |-> 0]
            IN /\ other' = [heap |-> Append(file, new_card),
                            cards |-> Append(LoadCards(file).cards, ref)]
               /\ file' = Dump(other'.heap, other'.cards)
         /\ lastOp' = "other_add"
         /\ UNCHANGED <<keys, heap, cards, session, editing_card_id, hist,
                        stats, summaryRenders, graded, listed>>
    ELSE /\ lastOp' = "other_add_rejected"
         /\ UNCHANGED <<keys, heap, cards, file, session, editing_card_id, hist, aux>>

\* "Add Card" button in the second process
OtherAddCard(question, answer, answer_type, topic) ==
    IF question # <<>> /\ answer # <<>>
    THEN /\ Len(other.heap) < MaxOtherCards
         /\ LET ref == Len(other.heap) + 1
                new_card == [id |-> OtherIdBase + ref, question |-> question,
                             answer |-> answer,
                             is_code |-> (answer_type = "Code"), topic |-> topic,
                             correct_count |-> 0, incorrect_count |-> 0]
            IN /\ other' = [heap |-> Append(other.heap, new_card),
                            cards |-> Append(other.cards, ref)]
               /\ file' = Dump(other'.heap, other'.cards)
         /\ lastOp' = "other_add"
         /\ UNCHANGED <<keys, heap, cards, session, editing_card_id, hist,
                        stats, summaryRenders, graded, listed>>
    ELSE /\ lastOp' = "other_add_rejected"
         /\ UNCHANGED <<keys, heap, cards, file, session, editing_card_id, hist, aux>>

\* "Delete" button of a listed card in the second process
OtherDeleteCard(ref) ==
    /\ ref \in Range(other.cards)
    /\ other' = [other EXCEPT !.cards = RemoveId(other.heap, other.cards, other.heap[ref].id)]
    /\ file' = Dump(other.heap, other'.cards)
    /\ lastOp' = "other_delete"
    /\ UNCHANGED <<keys, heap, cards, session, editing_card_id, hist,
                   stats, summaryRenders, graded, listed>>

NextTwo ==
    \/ \E f \in AddForms : AddCard(f.question, f.answer, f.answer_type, f.topic)
    \/ \E ref \in Range(cards) : DeleteCard(ref)
    \/ \E topic \in StartTopics, indices \in UNION {Shuffles(n) : n \in 0..MaxCards} :
          StartSession(topic, indices)
    \/ \E u \in UTexts : SubmitAnswer(u)
    \/ NextCard
    \/ \E f \in OtherAddForms : OtherAddCard(f.question, f.answer, f.answer_type, f.topic)
    \/ \E ref \in Range(other.cards) : OtherDeleteCard(ref)

SpecTwo == InitTwo /\ [][NextTwo]_vars

\* one user session using the practice and manage pages
Spec == Init /\ [][Next]_vars

\* ---- properties --------------------------------------------------------
Tallies == session.correct_answers + session.incorrect_answers
ManageOps == {"add", "add_rejected", "click_edit", "edit", "cancel_edit", "delete"}

\* C1: every successful start leaves position 0, both tallies 0 and no pending answer.
C1_StartResetsRecord ==
    lastOp = "start" =>
        /\ session.current_index = 0
        /\ session.correct_answers = 0
        /\ session.incorrect_answers = 0
        /\ session.answer_submitted = FALSE
        /\ session.last_answer_correct = "None"

\* C2: when a session in which every presented card was answered and then advanced
\* has ended by its last advance, the tallies sum to the number of cards of the session.
C2_FullSessionTalliesN ==
    (lastOp = "advance" /\ ~session.active /\ hClean) =>
        Tallies = Len(session.shuffled_indices)

\* C3: while a session is active, the tallies sum to the position.
C3_TalliesEqualPosition ==
    session.active => Tallies = session.current_index

\* C4: the position is within 0..len(card ids), and below it while a session is active,
\* so that the lookup of the current card is defined.
C4_PositionInRange ==
    /\ 0 <= session.current_index
    /\ session.current_index <= Len(session.shuffled_indices)
    /\ session.active => (session.current_index < Len(session.shuffled_indices)
                           /\ CurrentCardDefined)

\* C5: submit is possible only while active with no answer pending, advance only with a
\* pending judgment, and every advance tallies an answer submitted for the current card
\* during the current session.
C5_AdvanceTalliesSubmittedAnswer ==
    /\ (\E u \in UTexts : ENABLED SubmitAnswer(u)) =>
            (session.active /\ ~session.answer_submitted)
    /\ (ENABLED NextCard) => (session.active /\ session.answer_submitted)
    /\ hClean

\* C6: each advance adds one to exactly one tally and one to the same-named counter of
\* the current card in the catalog, and changes no other counter of any card.
C6_AdvanceWritesThrough ==
    [][lastOp' = "advance" =>
        LET cur == CurrentCard
            ok == session.last_answer_correct = "True"
        IN /\ session'.correct_answers = session.correct_answers + (IF ok THEN 1 ELSE 0)
           /\ session'.incorrect_answers = session.incorrect_answers + (IF ok THEN 0 ELSE 1)
           /\ cur \in Range(cards')
           /\ heap'[cur] = IF ok THEN [heap[cur] EXCEPT !.correct_count = @ + 1]
                                 ELSE [heap[cur] EXCEPT !.incorrect_count = @ + 1]
           /\ \A r \in 1..Len(heap) : r # cur => heap'[r] = heap[r]
    ]_vars

\* what the session presents and grades against: order, and each card's id and texts
SessionView ==
    [order |-> session.shuffled_indices,
     shown |-> [i \in 1..Len(session.cards_in_session) |->
                  [id |-> heap[session.cards_in_session[i]].id,
                   question |-> heap[session.cards_in_session[i]].question,
                   answer |-> heap[session.cards_in_session[i]].answer]]]

\* C7 as stated: add, edit and delete during an active session change neither the cards
\* the session presents nor the question/answer text it grades with.
C7_SnapshotImmutable ==
    [][(session.active /\ lastOp' \in ManageOps) => SessionView' = SessionView]_vars

\* C7 as amended: add, edit and delete during an active session leave the session's card
\* list, order and card ids as they are; add and delete change no text of a session card,
\* and a saved edit changes the text of the edited card only.
C7_SnapshotCardsFixed ==
    [][(session.active /\ lastOp' \in ManageOps) =>
        /\ session' = session
        /\ \A i \in 1..Len(session.cards_in_session) :
              LET r == session.cards_in_session[i]
              IN /\ heap'[r].id = heap[r].id
                 /\ \/ lastOp' = "edit" /\ heap[r].id = editing_card_id
                    \/ heap'[r] = heap[r]
    ]_vars

\* an edit saved during the session changed the answer of the card whose submitted
\* answer is pending: the recorded grade no longer matches the card's text
C7_Witness ==
    /\ lastOp = "edit"
    /\ session.active
    /\ CurrentCardDefined
    /\ hSubmitted
    /\ session.last_answer_correct = "True"
    /\ Normalize(session.user_answer) # Normalize(heap[CurrentCard].answer)

\* C8: a start whose topic matches no card of a non-empty catalog leaves the engine idle
\* and changes neither the session record nor the catalog.
C8_EmptyTopicStartChangesNothing ==
    [][lastOp' = "start_error" =>
        /\ cards # <<>>
        /\ ~session'.active
        /\ session' = session
        /\ heap' = heap /\ cards' = cards /\ file' = file
    ]_vars

C8_Witness ==
    /\ lastOp = "start_error"
    /\ cards # <<>>
    /\ Tallies > 0

\* C9: end is possible in every state of an active session.
C9_EndAlwaysPossible ==
    session.active => ENABLED EndSession

\* C10: a card that stays in the catalog keeps its id and its counters never decrease;
\* a saved edit leaves id, is_code and both counters of every card as they are.
C10_IdFixedCountersMonotone ==
    [][/\ \A r \in Range(cards) \cap Range(cards') :
             /\ heap'[r].id = heap[r].id
             /\ heap'[r].correct_count >= heap[r].correct_count
             /\ heap'[r].incorrect_count >= heap[r].incorrect_count
       /\ lastOp' = "edit" =>
             /\ cards' = cards
             /\ Len(heap') = Len(heap)
             /\ \A r \in 1..Len(heap) :
                   /\ heap'[r].id = heap[r].id
                   /\ heap'[r].is_code = heap[r].is_code
                   /\ heap'[r].correct_count = heap[r].correct_count
                   /\ heap'[r].incorrect_count = heap[r].incorrect_count
    ]_vars

\* a card with recorded attempts has just been edited
C10_Witness ==
    /\ lastOp = "edit"
    /\ \E r \in Range(cards) :
          /\ heap[r].question = <<>>
          /\ heap[r].is_code
          /\ heap[r].correct_count > 0
          /\ heap[r].incorrect_count > 0

\* C11: between operations the file holds exactly the in-memory collection (what
\* json.load returns from the file is the list json.dump wrote: strings, booleans and
\* integers under string keys).
C11_FileHoldsCatalog ==
    file = Dump(heap, cards)

\* a counter written by an advance is in the file
C11_Witness ==
    /\ lastOp = "advance"
    /\ \E i \in 1..Len(file) : file[i].correct_count + file[i].incorrect_count > 0
    /\ \E r \in 1..Len(heap) : r \notin Range(cards)

\* C13: an add with an empty question or answer changes neither catalog nor file; an add
\* with both non-empty appends one card with a fresh id and zero counters.
C13_AddValidatesAndAppends ==
    [][/\ lastOp' = "add_rejected" =>
             (heap' = heap /\ cards' = cards /\ file' = file)
       /\ lastOp' = "add" =>
             /\ Len(cards') = Len(cards) + 1
             /\ SubSeq(cards', 1, Len(cards)) = cards
             /\ \A r \in 1..Len(heap) : heap'[r] = heap[r]
             /\ LET new == heap'[cards'[Len(cards')]]
                IN /\ new.id \notin {heap[r].id : r \in 1..Len(heap)}
                   /\ new.question # <<>> /\ new.answer # <<>>
                   /\ new.correct_count = 0 /\ new.incorrect_count = 0
    ]_vars

\* a second card has just been added to a catalog whose first card has been graded
C13_Witness ==
    /\ lastOp = "add"
    /\ Len(cards) = 2
    /\ heap[cards[1]].correct_count + heap[cards[1]].incorrect_count > 0

\* C19: when a session has ended by its last advance, every card of the session has
\* been presented and advanced past exactly once.
C19_CompletedSessionGradesEachCardOnce ==
    (lastOp = "advance" /\ ~session.active) =>
        /\ Len(graded) = Len(session.shuffled_indices)
        /\ \A k \in 0..(Len(session.cards_in_session) - 1) :
              Cardinality({i \in 1..Len(graded) : graded[i] = k}) = 1

\* C20: every card of the catalog has a non-empty question and a non-empty answer.
C20_NoEmptyQuestionOrAnswer ==
    \A r \in Range(cards) : heap[r].question # <<>> /\ heap[r].answer # <<>>

\* the normal form the claim describes, by position: a character is kept when it is not
\* whitespace, or when it is the first whitespace after a kept word and a word follows
KeptPositions(s) ==
    {i \in 1..Len(s) :
        \/ ~IsSpace(s[i])
        \/ /\ i > 1 /\ ~IsSpace(s[i - 1])
           /\ \E j \in (i + 1)..Len(s) : ~IsSpace(s[j])}

NormalForm(s) ==
    LET kept == SelectSeq([i \in 1..Len(s) |-> i], LAMBDA i : i \in KeptPositions(s))
    IN [k \in 1..Len(kept) |->
          IF IsSpace(s[kept[k]]) THEN " "
          ELSE IF s[kept[k]] = "A" THEN "a" ELSE s[kept[k]]]

\* texts that differ from s by one letter's case or by one more whitespace character
\* at an end or next to whitespace
CaseVariants(s) ==
    {[s EXCEPT ![i] = IF s[i] = "a" THEN "A" ELSE "a"] :
        i \in {j \in 1..Len(s) : s[j] \in {"a", "A"}}}

InsertAt(s, i, c) == SubSeq(s, 1, i) \o <<c>> \o SubSeq(s, i + 1, Len(s))

WhitespaceVariants(s) ==
    {InsertAt(s, i, w) :
        i \in {j \in 0..Len(s) :
                  \/ j = 0 \/ j = Len(s)
                  \/ IsSpace(s[j]) \/ IsSpace(s[j + 1])},
        w \in {" ", "\n"}}

\* C14: a submitted answer is graded correct exactly when its normal form equals that of
\* the stored answer; normalising twice changes nothing; a submission that differs only
\* in letter case or amount of whitespace gets the same grade.
C14_GradingNormalizationInsensitive ==
    lastOp = "submit" =>
        LET u == session.user_answer
            a == heap[CurrentCard].answer
            grade == session.last_answer_correct = "True"
        IN /\ grade <=> (NormalForm(u) = NormalForm(a))
           /\ Normalize(Normalize(u)) = Normalize(u)
           /\ \A t \in CaseVariants(u) \cup WhitespaceVariants(u) :
                 (Normalize(t) = Normalize(a)) <=> grade

\* an answer in other case and with other whitespace than the stored one was graded correct
C14_Witness ==
    /\ lastOp = "submit"
    /\ session.user_answer = <<"a", " ", "\n", "a">>
    /\ heap[CurrentCard].answer = <<"A", " ", "a">>
    /\ session.last_answer_correct = "True"

FileIds == {file[i].id : i \in 1..Len(file)}

\* C12: saves of two processes are not merged: a save writes the saving process's own
\* collection (what it held before, changed by its own operation) and nothing of the other
\* process's; steps that do not save leave the file alone. So the file equals the collection
\* of whichever process saved last.
C12_LastWriterWins ==
    [][ /\ lastOp' \in {"add", "delete", "advance"} => file' = Dump(heap', cards')
        /\ lastOp' = "add" =>
              SubSeq(file', 1, Len(file') - 1) = Dump(heap, cards)
        /\ lastOp' \in {"other_add", "other_delete"} =>
              file' = Dump(other'.heap, other'.cards)
        /\ lastOp' = "other_add" =>
              SubSeq(file', 1, Len(file') - 1) = Dump(other.heap, other.cards)
        /\ lastOp' = "other_delete" =>
              \A i \in 1..Len(file') : file'[i] \in Range(Dump(other.heap, other.cards))
        /\ lastOp' \notin {"add", "delete", "advance", "other_add", "other_delete"} =>
              file' = file
      ]_vars

\* lost update: after the second process saved, a card added by the first process and a
\* counter incremented by the first process are absent from the file
C12_Witness ==
    /\ lastOp = "other_add"
    /\ \E r \in Range(cards) : heap[r].id \notin FileIds
    /\ \E r \in Range(cards), i \in 1..Len(file) :
          /\ file[i].id = heap[r].id
          /\ file[i].correct_count + file[i].incorrect_count
                < heap[r].correct_count + heap[r].incorrect_count

\* C15: once a session has gone from active to idle, its summary is shown on one rendering
\* of the practice page and on no later rendering before a new session is started: the
\* renderings since the session ended have shown it at most once.
C15_SummaryShownOnce ==
    (~session.active /\ session.shuffled_indices # <<>>) => summaryRenders <= 1

\* the ranking the claim describes: drop the cards never answered incorrectly, sort by
\* incorrect_count descending keeping catalog order among equals, take the first HardestK
RECURSIVE InsertDesc(_, _, _)
InsertDesc(h, sorted, r) ==
    IF sorted = <<>> THEN <<r>>
    ELSE IF h[Head(sorted)].incorrect_count >= h[r].incorrect_count
         THEN <<Head(sorted)>> \o InsertDesc(h, Tail(sorted), r)
         ELSE <<r>> \o sorted

RECURSIVE StableSortDesc(_, _)
StableSortDesc(h, cs) ==
    IF cs = <<>> THEN <<>>
    ELSE InsertDesc(h, StableSortDesc(h, SubSeq(cs, 1, Len(cs) - 1)), cs[Len(cs)])

RankedHardest(h, cs) ==
    LET ranked == StableSortDesc(h, SelectSeq(cs, LAMBDA r : h[r].incorrect_count > 0))
    IN SubSeq(ranked, 1, IF Len(ranked) < HardestK THEN Len(ranked) ELSE HardestK)

\* C16: the cards the statistics page lists as most challenging are the first 5 of the cards
\* with incorrect_count > 0 ordered by incorrect_count descending, ties in catalog order.
C16_HardestCardsRanked ==
    (lastOp = "view_stats" /\ cards # <<>>) => stats.hardest = RankedHardest(heap, cards)

\* C18: the statistics page never divides by zero: with no attempts (or no cards) it shows a
\* no-data message, otherwise the quotient of the summed correct counts by the summed
\* attempts, which are not zero.
C18_AccuracyNoDivisionByZero ==
    lastOp = "view_stats" =>
        LET total == TotalCorrect(heap, cards) + TotalIncorrect(heap, cards)
        IN /\ total = 0 => stats.outcome \in {"no_cards", "no_attempts"}
           /\ cards = <<>> => stats.outcome = "no_cards"
           /\ total # 0 => /\ stats.outcome = "accuracy"
                           /\ stats.total_correct = TotalCorrect(heap, cards)
                           /\ stats.total_attempts = total
           /\ stats.outcome = "accuracy" => stats.total_attempts # 0

\* the page was opened on a catalog of several cards none of which was ever attempted
C18_Witness ==
    /\ lastOp = "view_stats"
    /\ Len(cards) >= 2
    /\ TotalCorrect(heap, cards) + TotalIncorrect(heap, cards) = 0
    /\ stats.outcome = "no_attempts"

\* two characters are the same letter up to case
SameLetter(c, d) == c = d \/ {c, d} \in {{"a", "A"}, {"b", "B"}, {"q", "Q"}}

ContainsIgnoringCase(text, sub) ==
    \E i \in 0..(Len(text) - Len(sub)) :
        \A k \in 1..Len(sub) : SameLetter(text[i + k], sub[k])

\* card r is one the filter has to return for this search text and topic
Selected(r, search_query, filter_topic) ==
    /\ filter_topic = "All" \/ heap[r].topic = filter_topic
    /\ \/ ContainsIgnoringCase(heap[r].question, search_query)
       \/ ContainsIgnoringCase(heap[r].answer, search_query)

Occurrences(seq, x) == Cardinality({i \in 1..Len(seq) : seq[i] = x})

Position(seq, x) == CHOOSE i \in 1..Len(seq) : seq[i] = x

\* C17: the listed cards are exactly the cards of the catalog whose topic is the chosen one
\* (any topic for "All") and whose question or answer contains the search text regardless
\* of case, each once and in catalog order; so listing right after a successful add, with
\* the added card's topic and no search text, shows the added card exactly once.
C17_FilterSelectsMatchingCardsInOrder ==
    lastOp = "list" =>
        /\ \A i \in 1..Len(listed.cards) :
              /\ listed.cards[i] \in Range(cards)
              /\ Selected(listed.cards[i], listed.search_query, listed.filter_topic)
        /\ \A r \in Range(cards) :
              Selected(r, listed.search_query, listed.filter_topic)
                 => Occurrences(listed.cards, r) = 1
        /\ \A i, j \in 1..Len(listed.cards) :
              i < j => Position(cards, listed.cards[i]) < Position(cards, listed.cards[j])
        /\ ( /\ listed.after = "add"
             /\ listed.search_query = <<>>
             /\ listed.filter_topic = heap[cards[Len(cards)]].topic )
              => Occurrences(listed.cards, cards[Len(cards)]) = 1

\* right after a second card was added, the list for its topic shows it and not the other card
C17_Witness ==
    /\ lastOp = "list"
    /\ listed.after = "add"
    /\ listed.search_query = <<>>
    /\ Len(cards) = 2
    /\ listed.filter_topic = heap[cards[2]].topic
    /\ listed.cards = <<cards[2]>>

====
